---- MODULE Spec2Model ----
(***************************************************************************)
(* The final revision of the MongoDB wrapper (mongodb.go): one Client that *)
(* owns a driver handle, a connected flag, and the CRUD operations that    *)
(* delegate to the driver.  A single caller issues one call at a time and  *)
(* takes its result before the next call (Spec).                           *)
(*                                                                         *)
(* SpecRevisions adds the three earlier revisions kept in mongo.go, which  *)
(* open and disconnect a driver client in every operation.                 *)
(* SpecGoroutines runs getClient, connect, Close and IsConnected of the    *)
(* final revision statement by statement in goroutines that share one      *)
(* Client; SpecFair is SpecGoroutines under fair scheduling.               *)
(*                                                                         *)
(* An error value is a sequence of strings: <<>> is Go's nil error, <<m>>  *)
(* an error with message m, and <<p, m>> the error m wrapped with prefix p *)
(* (fmt.Errorf("p: %w", m)).                                               *)
(***************************************************************************)
EXTENDS Naturals, Integers, Sequences, FiniteSets, TLC

VARIABLES
    made,           \* a *Client has been returned by NewMongoClient
    ConnectionUrl,  \* Client.ConnectionUrl
    DatabaseName,   \* Client.DatabaseName
    client,         \* Client.client: the stored driver handle, 0 = nil
    connected,      \* Client.connected
    opened,         \* number of driver clients mongo.Connect has created
    live,           \* driver clients created and not yet disconnected
    closed,         \* Close() has returned on the Client
    store,          \* documents of the collection on the server
    last,           \* the call that has just returned, Idle when taken
    rev,            \* the revision of the package the program is built from
    handed,         \* driver clients returned to the caller, still connected
    undone,         \* driver clients whose deferred Disconnect returned an error
    pc,             \* where each goroutine is in getClient, connect, Close, IsConnected
    mutex,          \* Client.mutex: the goroutine holding Lock, those holding RLock
    got             \* what getClient returned to each goroutine, and its use

\* the state of the per-operation-connection revisions, and of the goroutines
revVars == <<rev, handed, undone>>
goVars == <<pc, mutex, got>>

vars ==
    <<made, ConnectionUrl, DatabaseName, client, connected, opened, live, closed, store, last,
      revVars, goVars>>

---------------------------------------------------------------------------
\* Bounds of the model.

\* mongo.Connect creates at most MaxClients driver clients in one run
MaxClients == 2

---------------------------------------------------------------------------
\* Values.

\* the ids of the tests' documents, and the empty id
EmptyId == ""
Ids == {"1", "2"}
Names == {"Akshay", "Raj"}
Fields == {"_id", "id", "name"}
FieldVals(f) == IF f = "name" THEN Names ELSE Ids

\* a stored document: the test struct data{_id, name} plus the custom "id" field
Doc(i, x, n) == [f \in Fields |-> CASE f = "_id" -> i [] f = "id" -> x [] OTHER -> n]
Docs == {Doc(i, x, n) : i \in Ids, x \in Ids, n \in Names}

NilHandle == 0
NilErr == <<>>
Err(m) == <<m>>
Wrap(prefix, err) == <<prefix>> \o err

ErrConnect == Err("driver: Connect failed")
ErrPing == Err("driver: Ping failed")
ErrDisconnect == Err("driver: Disconnect failed")
ErrCall == Err("driver: call failed")
ErrDupKey == Err("driver: duplicate key")
ErrImmutable == Err("driver: _id is immutable")
ErrNoDocuments == Err("mongo: no documents in result")

\* Which driver calls fail during one operation: mongo.Connect, the Ping
\* that verifies a new connection, Disconnect, and the operation's own call.
NoFault == [connect |-> FALSE, ping |-> FALSE, disconnect |-> FALSE, call |-> FALSE]
ConnectFaults ==
    { [NoFault EXCEPT !.connect = TRUE],
      [NoFault EXCEPT !.ping = TRUE],
      [NoFault EXCEPT !.ping = TRUE, !.disconnect = TRUE] }
CallFaults == {[NoFault EXCEPT !.call = TRUE]}
DisconnectFaults == {[NoFault EXCEPT !.disconnect = TRUE]}

\* the revisions of the package: mongo.go holds MongoClient, NewMongoDbClient
\* and Client, which connect for every operation; mongodb.go is the final one
RevMongoClient == "MongoClient"
RevNewMongoDbClient == "NewMongoDbClient"
RevClient == "Client"
RevFinal == "mongodb.go"
LegacyRevisions == {RevMongoClient, RevNewMongoDbClient, RevClient}

\* the goroutines that share one Client
Goroutines == {"g1", "g2", "g3"}
NoOne == "none"
Unlocked == [writer |-> NoOne, readers |-> {}]
\* nothing returned yet; use: "none", "ok", "nil" (nil handle dereferenced),
\* "disconnected" (the handle had been disconnected)
NoHandle == [h |-> NilHandle, err |-> NilErr, returned |-> FALSE, use |-> "none", is |-> FALSE]

---------------------------------------------------------------------------
\* Connection lifecycle.

\* the connection fields of the Client and the driver clients behind it
Conn == [client |-> client, connected |-> connected, opened |-> opened, live |-> live]

\* connect without the early return on c.connected
connect_noCheck(s, env) ==
    IF env.connect
    THEN [s |-> s, err |-> ErrConnect, calls |-> <<"Connect">>]
    ELSE LET h == s.opened + 1
             s1 == [s EXCEPT !.opened = h, !.live = @ \cup {h}]
         IN  IF env.ping
             THEN IF env.disconnect
                  THEN [s |-> s1, err |-> ErrDisconnect,
                        calls |-> <<"Connect", "Ping", "Disconnect">>]
                  ELSE [s |-> [s1 EXCEPT !.live = @ \ {h}], err |-> NilErr,
                        calls |-> <<"Connect", "Ping", "Disconnect">>]
             ELSE [s |-> [s1 EXCEPT !.client = h, !.connected = TRUE],
                   err |-> NilErr, calls |-> <<"Connect", "Ping">>]

\* connect that stores the new handle before it verifies the connection
connect_storesBeforePing(s, env) ==
    IF s.connected
    THEN [s |-> s, err |-> NilErr, calls |-> <<>>]
    ELSE IF env.connect
    THEN [s |-> s, err |-> ErrConnect, calls |-> <<"Connect">>]
    ELSE LET h == s.opened + 1
             s1 == [s EXCEPT !.opened = h, !.live = @ \cup {h}, !.client = h]
         IN  IF env.ping
             THEN IF env.disconnect
                  THEN [s |-> s1, err |-> ErrDisconnect,
                        calls |-> <<"Connect", "Ping", "Disconnect">>]
                  ELSE [s |-> [s1 EXCEPT !.live = @ \ {h}], err |-> NilErr,
                        calls |-> <<"Connect", "Ping", "Disconnect">>]
             ELSE [s |-> [s1 EXCEPT !.connected = TRUE],
                   err |-> NilErr, calls |-> <<"Connect", "Ping">>]

\* connect: no-op when connected; else Connect, then Ping; a failed Ping
\* disconnects the new client and returns the error of that Disconnect.
connect(s, env) ==
    IF s.connected
    THEN [s |-> s, err |-> NilErr, calls |-> <<>>]
    ELSE IF env.connect
    THEN [s |-> s, err |-> ErrConnect, calls |-> <<"Connect">>]
    ELSE LET h == s.opened + 1
             s1 == [s EXCEPT !.opened = h, !.live = @ \cup {h}]
         IN  IF env.ping
             THEN IF env.disconnect
                  THEN [s |-> s1, err |-> ErrDisconnect,
                        calls |-> <<"Connect", "Ping", "Disconnect">>]
                  ELSE [s |-> [s1 EXCEPT !.live = @ \ {h}], err |-> NilErr,
                        calls |-> <<"Connect", "Ping", "Disconnect">>]
             ELSE [s |-> [s1 EXCEPT !.client = h, !.connected = TRUE],
                   err |-> NilErr, calls |-> <<"Connect", "Ping">>]

\* getClient that connects anew whatever the state
getClient_alwaysConnects(s, env) ==
    LET r == connect([s EXCEPT !.connected = FALSE], env)
    IN  IF r.err # NilErr
        THEN [s |-> r.s, h |-> NilHandle, err |-> r.err, calls |-> r.calls]
        ELSE [s |-> r.s, h |-> r.s.client, err |-> NilErr, calls |-> r.calls]

\* getClient: the stored handle when connected, else connect() and the
\* handle stored after it.
getClient(s, env) ==
    IF s.connected /\ s.client # NilHandle
    THEN [s |-> s, h |-> s.client, err |-> NilErr, calls |-> <<>>]
    ELSE LET r == connect(s, env)
         IN  IF r.err # NilErr
             THEN [s |-> r.s, h |-> NilHandle, err |-> r.err, calls |-> r.calls]
             ELSE [s |-> r.s, h |-> r.s.client, err |-> NilErr, calls |-> r.calls]

\* close that clears the connected flag and keeps the handle
close_keepsHandle(s, env) ==
    IF ~s.connected \/ s.client = NilHandle
    THEN [s |-> s, err |-> NilErr, calls |-> <<>>]
    ELSE [s |-> [s EXCEPT !.connected = FALSE,
                          !.live = IF env.disconnect THEN @ ELSE @ \ {s.client}],
          err |-> IF env.disconnect THEN ErrDisconnect ELSE NilErr,
          calls |-> <<"Disconnect">>]

\* close that returns a failed Disconnect's error before it clears the state
close_abortsOnError(s, env) ==
    IF ~s.connected \/ s.client = NilHandle
    THEN [s |-> s, err |-> NilErr, calls |-> <<>>]
    ELSE IF env.disconnect
    THEN [s |-> s, err |-> ErrDisconnect, calls |-> <<"Disconnect">>]
    ELSE [s |-> [s EXCEPT !.connected = FALSE, !.client = NilHandle, !.live = @ \ {s.client}],
          err |-> NilErr, calls |-> <<"Disconnect">>]

\* close that reports an error on a client that is not connected
close_errorsWhenClosed(s, env) ==
    IF ~s.connected \/ s.client = NilHandle
    THEN [s |-> s, err |-> Err("client is not connected"), calls |-> <<>>]
    ELSE [s |-> [s EXCEPT !.connected = FALSE, !.client = NilHandle,
                          !.live = IF env.disconnect THEN @ ELSE @ \ {s.client}],
          err |-> IF env.disconnect THEN ErrDisconnect ELSE NilErr,
          calls |-> <<"Disconnect">>]

\* close that forgets to clear the connected flag
close_keepsFlag(s, env) ==
    IF ~s.connected \/ s.client = NilHandle
    THEN [s |-> s, err |-> NilErr, calls |-> <<>>]
    ELSE [s |-> [s EXCEPT !.client = NilHandle,
                          !.live = IF env.disconnect THEN @ ELSE @ \ {s.client}],
          err |-> IF env.disconnect THEN ErrDisconnect ELSE NilErr,
          calls |-> <<"Disconnect">>]

\* Close: no-op when disconnected; else Disconnect, clear the flag and the
\* handle, return Disconnect's error.
close(s, env) ==
    IF ~s.connected \/ s.client = NilHandle
    THEN [s |-> s, err |-> NilErr, calls |-> <<>>]
    ELSE [s |-> [s EXCEPT !.connected = FALSE, !.client = NilHandle,
                          !.live = IF env.disconnect THEN @ ELSE @ \ {s.client}],
          err |-> IF env.disconnect THEN ErrDisconnect ELSE NilErr,
          calls |-> <<"Disconnect">>]

\* mongo.Connect is called by connect() exactly when the client is not connected
NeedsConnect(s) == ~(s.connected /\ s.client # NilHandle)
CanConnect(s) == NeedsConnect(s) => s.opened < MaxClients

\* the faults an operation can meet: those of connect() only when it connects
Envs == {NoFault} \cup CallFaults \cup (IF NeedsConnect(Conn) THEN ConnectFaults ELSE {})

---------------------------------------------------------------------------
\* Calls and their results.

\* a filter document: nil, {field: v} or {field: {$in: vals}}
NilFilter == [kind |-> "nil", field |-> "", vals |-> {}]
Eq(f, v) == [kind |-> "eq", field |-> f, vals |-> {v}]
In(f, S) == [kind |-> "in", field |-> f, vals |-> S]

\* the data argument: nil, or a document (for $set: the fields to set)
NilData == [nil |-> TRUE, doc |-> <<>>]
Data(d) == [nil |-> FALSE, doc |-> d]

NoArgs ==
    [url |-> "", db |-> "", coll |-> "", id |-> EmptyId, filter |-> NilFilter,
     data |-> NilData, many |-> <<>>, result |-> FALSE, pipeline |-> FALSE]
NoRet ==
    [docs |-> {}, ids |-> <<>>, matched |-> 0, n |-> 0, found |-> FALSE,
     h |-> NilHandle, name |-> "", err |-> NilErr]

\* a call that returned (or panicked): its arguments, the driver calls it
\* made in order, the connection state when its own driver call was made,
\* the error that driver call returned, and what the call returned
Call(op, args, r) ==
    [op |-> op, args |-> args, err |-> r.err, out |-> r.out, calls |-> r.calls,
     at |-> r.at, drv |-> r.drv, ret |-> r.ret]
Idle ==
    [op |-> "idle", args |-> NoArgs, err |-> NilErr, out |-> "return", calls |-> <<>>,
     at |-> [client |-> NilHandle, connected |-> FALSE, opened |-> 0, live |-> {}],
     drv |-> NilErr, ret |-> NoRet]
Ready == last.op = "idle"

PutConn(s) ==
    /\ client' = s.client
    /\ connected' = s.connected
    /\ opened' = s.opened
    /\ live' = s.live

\* an operation that stopped before its own driver call
Stopped(s, err, calls) ==
    [s |-> s, err |-> err, out |-> "return", calls |-> calls, at |-> s, drv |-> NilErr,
     ret |-> NoRet]
\* a nil *mongo.Client was dereferenced
Panicked(s, calls) ==
    [s |-> s, err |-> NilErr, out |-> "panic", calls |-> calls, at |-> s, drv |-> NilErr,
     ret |-> NoRet]
\* an operation that went through: drv is the error of its own driver call,
\* err the error it returns
Done(s, drv, err, calls, ret) ==
    [s |-> s, err |-> err, out |-> "return", calls |-> calls, at |-> s, drv |-> drv,
     ret |-> ret]

---------------------------------------------------------------------------
\* Lifecycle operations.

Init ==
    /\ made = FALSE
    /\ ConnectionUrl = ""
    /\ DatabaseName = ""
    /\ client = NilHandle
    /\ connected = FALSE
    /\ opened = 0
    /\ live = {}
    /\ closed = FALSE
    /\ store = {}
    /\ last = Idle
    /\ rev = RevFinal
    /\ handed = {}
    /\ undone = {}
    /\ pc = [g \in Goroutines |-> "idle"]
    /\ mutex = Unlocked
    /\ got = [g \in Goroutines |-> NoHandle]

\* newMongoClient without the check of the database name
newMongoClient_noDbCheck(s, url, db, env) ==
    IF url = "" THEN [ok |-> FALSE, r |-> Stopped(s, Err("connection URL cannot be empty"), <<>>)]
    ELSE LET c == connect([s EXCEPT !.client = NilHandle, !.connected = FALSE], env)
         IN  IF c.err # NilErr
             THEN [ok |-> FALSE,
                   r |-> Stopped([s EXCEPT !.opened = c.s.opened, !.live = c.s.live],
                                 Wrap("failed to connect to MongoDB", c.err), c.calls)]
             ELSE [ok |-> TRUE, r |-> Stopped(c.s, NilErr, c.calls)]

newMongoClient(s, url, db, env) ==
    IF url = "" THEN [ok |-> FALSE, r |-> Stopped(s, Err("connection URL cannot be empty"), <<>>)]
    ELSE IF db = "" THEN [ok |-> FALSE, r |-> Stopped(s, Err("database name cannot be empty"), <<>>)]
    ELSE LET c == connect([s EXCEPT !.client = NilHandle, !.connected = FALSE], env)
         IN  IF c.err # NilErr
             THEN [ok |-> FALSE,
                   r |-> Stopped([s EXCEPT !.opened = c.s.opened, !.live = c.s.live],
                                 Wrap("failed to connect to MongoDB", c.err), c.calls)]
             ELSE [ok |-> TRUE, r |-> Stopped(c.s, NilErr, c.calls)]

NewMongoClient ==
    /\ Ready /\ ~made /\ opened < MaxClients
    /\ \E url \in {"", "mongodb://localhost:27017"}, db \in {"", "test"},
          env \in {NoFault} \cup ConnectFaults :
        LET n == newMongoClient(Conn, url, db, env)
            a == [NoArgs EXCEPT !.url = url, !.db = db]
        IN  /\ made' = n.ok
            /\ ConnectionUrl' = IF n.ok THEN url ELSE ConnectionUrl
            /\ DatabaseName' = IF n.ok THEN db ELSE DatabaseName
            /\ PutConn(n.r.s)
            /\ last' = Call("NewMongoClient", a, [n.r EXCEPT !.ret.found = n.ok])
            /\ UNCHANGED <<closed, store, revVars, goVars>>

Close ==
    /\ Ready /\ made
    /\ \E env \in {NoFault} \cup DisconnectFaults :
        LET c == close(Conn, env)
        IN  /\ PutConn(c.s)
            /\ closed' = TRUE
            /\ last' = Call("Close", NoArgs, [Stopped(c.s, c.err, c.calls) EXCEPT !.drv = c.err])
            /\ UNCHANGED <<made, ConnectionUrl, DatabaseName, store, revVars, goVars>>

IsConnected ==
    /\ Ready
    /\ made
    /\ last' = Call("IsConnected", NoArgs,
                    Done(Conn, NilErr, NilErr, <<>>, [NoRet EXCEPT !.found = connected]))
    /\ UNCHANGED <<made, ConnectionUrl, DatabaseName, client, connected, opened, live, closed, store,
                   revVars, goVars>>

\* Database(): getClient, then client.Database(c.DatabaseName) on the handle
database(s, env) ==
    LET g == getClient(s, env)
    IN  IF g.err # NilErr THEN Stopped(g.s, g.err, g.calls)
        ELSE IF g.h = NilHandle THEN Panicked(g.s, g.calls)
        ELSE Done(g.s, NilErr, NilErr, g.calls, [NoRet EXCEPT !.h = g.h, !.name = DatabaseName])

rawClient(s, env) ==
    LET g == getClient(s, env)
    IN  IF g.err # NilErr THEN Stopped(g.s, g.err, g.calls)
        ELSE Done(g.s, NilErr, NilErr, g.calls, [NoRet EXCEPT !.h = g.h])

ping(s, env) ==
    LET g == getClient(s, env)
    IN  IF g.err # NilErr THEN Stopped(g.s, g.err, g.calls)
        ELSE IF g.h = NilHandle THEN Panicked(g.s, g.calls)
        ELSE LET e == IF env.call THEN ErrCall ELSE NilErr
             IN  Done(g.s, e, e, g.calls \o <<"Ping">>, [NoRet EXCEPT !.h = g.h])

dropDatabase(s, env) ==
    LET d == database(s, env)
    IN  IF d.err # NilErr \/ d.out = "panic" THEN d
        ELSE LET e == IF env.call THEN ErrCall ELSE NilErr
             IN  Done(d.s, e, e, d.calls \o <<"Drop">>, d.ret)

\* the caller holds a Client and is not in a call
Callable == Ready /\ made /\ CanConnect(Conn)

\* an operation of the constructed Client that does not touch the documents
Lifecycle(op, r) ==
    /\ PutConn(r.s)
    /\ last' = Call(op, NoArgs, r)
    /\ UNCHANGED <<made, ConnectionUrl, DatabaseName, closed, revVars, goVars>>

Database ==
    /\ Callable
    /\ \E env \in Envs \ CallFaults : Lifecycle("Database", database(Conn, env)) /\ UNCHANGED store

RawClient ==
    /\ Callable
    /\ \E env \in Envs \ CallFaults : Lifecycle("RawClient", rawClient(Conn, env)) /\ UNCHANGED store

Ping ==
    /\ Callable
    /\ \E env \in Envs : Lifecycle("Ping", ping(Conn, env)) /\ UNCHANGED store

DropDatabase ==
    /\ Callable
    /\ \E env \in Envs :
        LET r == dropDatabase(Conn, env)
        IN  /\ Lifecycle("DropDatabase", r)
            /\ store' = IF r.err = NilErr /\ r.out = "return" THEN {} ELSE store

---------------------------------------------------------------------------
\* The driver's collection calls on the stored documents.  Each yields the
\* set of its possible outcomes [store, err, ret]; a failed call (env.call)
\* changes nothing.

Match(d, flt) == flt.kind # "nil" /\ d[flt.field] \in flt.vals
Matching(S, flt) == {d \in S : Match(d, flt)}

CallFailed(S) == {[store |-> S, err |-> ErrCall, ret |-> [NoRet EXCEPT !.err = ErrCall]]}

\* $set: the given fields take the given values, the others stay
Set(d, fields) == [f \in Fields |-> IF f \in DOMAIN fields THEN fields[f] ELSE d[f]]

InsertOne(S, d, env) ==
    IF env.call THEN CallFailed(S)
    ELSE IF \E e \in S : e["_id"] = d["_id"]
    THEN {[store |-> S, err |-> ErrDupKey, ret |-> NoRet]}
    ELSE {[store |-> S \cup {d}, err |-> NilErr, ret |-> [NoRet EXCEPT !.ids = <<d["_id"]>>]]}

\* ordered insert: stops at the first duplicate key, the earlier ones stay
RECURSIVE InsertEach(_, _, _)
InsertEach(S, ds, ids) ==
    IF ds = <<>> THEN [store |-> S, err |-> NilErr, ret |-> [NoRet EXCEPT !.ids = ids]]
    ELSE IF \E e \in S : e["_id"] = Head(ds)["_id"]
    THEN [store |-> S, err |-> ErrDupKey, ret |-> [NoRet EXCEPT !.ids = ids]]
    ELSE InsertEach(S \cup {Head(ds)}, Tail(ds), Append(ids, Head(ds)["_id"]))

InsertMany(S, ds, env) ==
    IF env.call THEN CallFailed(S) ELSE {InsertEach(S, ds, <<>>)}

\* the outcome of $set on one matched document
UpdateDoc(S, d, fields) ==
    IF Set(d, fields)["_id"] # d["_id"]
    THEN [store |-> S, err |-> ErrImmutable, ret |-> NoRet]
    ELSE [store |-> (S \ {d}) \cup {Set(d, fields)}, err |-> NilErr,
          ret |-> [NoRet EXCEPT !.matched = 1, !.n = IF Set(d, fields) # d THEN 1 ELSE 0]]

UpdateOne(S, flt, fields, env) ==
    IF env.call THEN CallFailed(S)
    ELSE IF Matching(S, flt) = {}
    THEN {[store |-> S, err |-> NilErr, ret |-> NoRet]}
    ELSE {UpdateDoc(S, d, fields) : d \in Matching(S, flt)}

\* the matched documents are updated one after the other; a document whose
\* _id would change stops the call, the documents updated before it stay
UpdateMany(S, flt, fields, env) ==
    LET M == Matching(S, flt)
        bad == {d \in M : Set(d, fields)["_id"] # d["_id"]}
        upd(T) == (S \ T) \cup {Set(d, fields) : d \in T}
        changed(T) == Cardinality({d \in T : Set(d, fields) # d})
    IN  IF env.call THEN CallFailed(S)
        ELSE IF bad = {}
        THEN {[store |-> upd(M), err |-> NilErr,
               ret |-> [NoRet EXCEPT !.matched = Cardinality(M), !.n = changed(M)]]}
        ELSE {[store |-> upd(T), err |-> ErrImmutable, ret |-> NoRet] : T \in SUBSET (M \ bad)}

DeleteOne(S, flt, env) ==
    IF env.call THEN CallFailed(S)
    ELSE IF Matching(S, flt) = {}
    THEN {[store |-> S, err |-> NilErr, ret |-> NoRet]}
    ELSE {[store |-> S \ {d}, err |-> NilErr, ret |-> [NoRet EXCEPT !.n = 1]] :
            d \in Matching(S, flt)}

DeleteMany(S, flt, env) ==
    IF env.call THEN CallFailed(S)
    ELSE {[store |-> S \ Matching(S, flt), err |-> NilErr,
           ret |-> [NoRet EXCEPT !.n = Cardinality(Matching(S, flt))]]}

\* a SingleResult: the document found, or the error it carries
FindOne(S, flt, env) ==
    IF env.call THEN CallFailed(S)
    ELSE IF Matching(S, flt) = {}
    THEN {[store |-> S, err |-> ErrNoDocuments, ret |-> [NoRet EXCEPT !.err = ErrNoDocuments]]}
    ELSE {[store |-> S, err |-> NilErr, ret |-> [NoRet EXCEPT !.docs = {d}, !.found = TRUE]] :
            d \in Matching(S, flt)}

\* Find and cursor.All: every matching document
Find(S, flt, env) ==
    IF env.call THEN CallFailed(S)
    ELSE {[store |-> S, err |-> NilErr,
           ret |-> [NoRet EXCEPT !.docs = Matching(S, flt), !.n = Cardinality(Matching(S, flt))]]}

CountDocuments(S, flt, env) ==
    IF env.call THEN CallFailed(S)
    ELSE {[store |-> S, err |-> NilErr, ret |-> [NoRet EXCEPT !.n = Cardinality(Matching(S, flt))]]}

\* the empty pipeline bson.A{}: every document of the collection
Aggregate(S, env) ==
    IF env.call THEN CallFailed(S)
    ELSE {[store |-> S, err |-> NilErr, ret |-> [NoRet EXCEPT !.docs = S, !.n = Cardinality(S)]]}

---------------------------------------------------------------------------
\* Collection operations of the Client.

\* a filter on the custom field instead
idFilter_custom(id) == Eq("id", id)

\* the filter the by-id operations build from their id argument
idFilter(id) == Eq("_id", id)

validateParams(collectionName) ==
    IF collectionName = "" THEN Err("collection name cannot be empty") ELSE NilErr

\* getCollection that acquires the client before it validates the name
getCollection_connectFirst(s, collectionName, env) ==
    LET g == getClient(s, env)
    IN  IF g.err # NilErr THEN Stopped(g.s, g.err, g.calls)
        ELSE IF validateParams(collectionName) # NilErr
        THEN Stopped(g.s, validateParams(collectionName), g.calls)
        ELSE IF g.h = NilHandle THEN Panicked(g.s, g.calls)
        ELSE Done(g.s, NilErr, NilErr, g.calls,
                  [NoRet EXCEPT !.h = g.h, !.name = collectionName])

\* getCollection that names the collection after the database
getCollection_dbName(s, collectionName, env) ==
    IF validateParams(collectionName) # NilErr
    THEN Stopped(s, validateParams(collectionName), <<>>)
    ELSE LET g == getClient(s, env)
         IN  IF g.err # NilErr THEN Stopped(g.s, g.err, g.calls)
             ELSE IF g.h = NilHandle THEN Panicked(g.s, g.calls)
             ELSE Done(g.s, NilErr, NilErr, g.calls,
                       [NoRet EXCEPT !.h = g.h, !.name = DatabaseName])

\* getCollection: validateParams, getClient, client.Database(..).Collection(..)
getCollection(s, collectionName, env) ==
    IF validateParams(collectionName) # NilErr
    THEN Stopped(s, validateParams(collectionName), <<>>)
    ELSE LET g == getClient(s, env)
         IN  IF g.err # NilErr THEN Stopped(g.s, g.err, g.calls)
             ELSE IF g.h = NilHandle THEN Panicked(g.s, g.calls)
             ELSE Done(g.s, NilErr, NilErr, g.calls,
                       [NoRet EXCEPT !.h = g.h, !.name = collectionName])

Failed(r) == r.err # NilErr \/ r.out = "panic"

\* an operation that ends without its driver call
Only(r, S) == {[r |-> r, store |-> S]}
Rejected(s, S, msg) == Only(Stopped(s, Err(msg), <<>>), S)
\* an operation that drops the connection when its driver call fails
Driver_dropsConnection(c, name, outs) ==
    {[r |-> [Done(c.s, o.err, o.err, c.calls \o <<name>>, o.ret)
                EXCEPT !.s = IF o.err = NilErr THEN c.s
                             ELSE [c.s EXCEPT !.connected = FALSE, !.client = NilHandle]],
      store |-> o.store] : o \in outs}

\* the operation returns the driver call's result and error as they are
Driver(c, name, outs) ==
    {[r |-> Done(c.s, o.err, o.err, c.calls \o <<name>>, o.ret), store |-> o.store] : o \in outs}

add(s, S, coll, data, env) ==
    IF data.nil THEN Rejected(s, S, "data cannot be nil")
    ELSE LET c == getCollection(s, coll, env)
         IN  IF Failed(c) THEN Only(c, S)
             ELSE Driver(c, "InsertOne", InsertOne(S, data.doc, env))

addMany(s, S, coll, many, env) ==
    IF Len(many) = 0 THEN Rejected(s, S, "data slice cannot be empty")
    ELSE LET c == getCollection(s, coll, env)
         IN  IF Failed(c) THEN Only(c, S)
             ELSE Driver(c, "InsertMany", InsertMany(S, many, env))

\* update that gets the collection before it checks its arguments
update_connectFirst(s, S, coll, id, data, env) ==
    LET c == getCollection(s, coll, env)
    IN  IF Failed(c) THEN Only(c, S)
        ELSE IF id = EmptyId THEN Only(Stopped(c.s, Err("id cannot be empty"), c.calls), S)
        ELSE IF data.nil THEN Only(Stopped(c.s, Err("data cannot be nil"), c.calls), S)
        ELSE Driver(c, "UpdateOne", UpdateOne(S, idFilter(id), data.doc, env))

update(s, S, coll, id, data, env) ==
    IF id = EmptyId THEN Rejected(s, S, "id cannot be empty")
    ELSE IF data.nil THEN Rejected(s, S, "data cannot be nil")
    ELSE LET c == getCollection(s, coll, env)
         IN  IF Failed(c) THEN Only(c, S)
             ELSE Driver(c, "UpdateOne", UpdateOne(S, idFilter(id), data.doc, env))

updateCustom(s, S, coll, filter, data, env) ==
    IF filter.kind = "nil" THEN Rejected(s, S, "filter cannot be nil")
    ELSE IF data.nil THEN Rejected(s, S, "data cannot be nil")
    ELSE LET c == getCollection(s, coll, env)
         IN  IF Failed(c) THEN Only(c, S)
             ELSE Driver(c, "UpdateOne", UpdateOne(S, filter, data.doc, env))

\* updateMany that calls UpdateOne
updateMany_one(s, S, coll, filter, data, env) ==
    IF filter.kind = "nil" THEN Rejected(s, S, "filter cannot be nil")
    ELSE IF data.nil THEN Rejected(s, S, "data cannot be nil")
    ELSE LET c == getCollection(s, coll, env)
         IN  IF Failed(c) THEN Only(c, S)
             ELSE Driver(c, "UpdateOne", UpdateOne(S, filter, data.doc, env))

updateMany(s, S, coll, filter, data, env) ==
    IF filter.kind = "nil" THEN Rejected(s, S, "filter cannot be nil")
    ELSE IF data.nil THEN Rejected(s, S, "data cannot be nil")
    ELSE LET c == getCollection(s, coll, env)
         IN  IF Failed(c) THEN Only(c, S)
             ELSE Driver(c, "UpdateMany", UpdateMany(S, filter, data.doc, env))

delete(s, S, coll, id, env) ==
    IF id = EmptyId THEN Rejected(s, S, "id cannot be empty")
    ELSE LET c == getCollection(s, coll, env)
         IN  IF Failed(c) THEN Only(c, S)
             ELSE Driver(c, "DeleteOne", DeleteOne(S, idFilter(id), env))

\* deleteCustom that calls DeleteMany
deleteCustom_many(s, S, coll, filter, env) ==
    IF filter.kind = "nil" THEN Rejected(s, S, "filter cannot be nil")
    ELSE LET c == getCollection(s, coll, env)
         IN  IF Failed(c) THEN Only(c, S)
             ELSE Driver(c, "DeleteMany", DeleteMany(S, filter, env))

deleteCustom(s, S, coll, filter, env) ==
    IF filter.kind = "nil" THEN Rejected(s, S, "filter cannot be nil")
    ELSE LET c == getCollection(s, coll, env)
         IN  IF Failed(c) THEN Only(c, S)
             ELSE Driver(c, "DeleteOne", DeleteOne(S, filter, env))

deleteMany(s, S, coll, filter, env) ==
    IF filter.kind = "nil" THEN Rejected(s, S, "filter cannot be nil")
    ELSE LET c == getCollection(s, coll, env)
         IN  IF Failed(c) THEN Only(c, S)
             ELSE Driver(c, "DeleteMany", DeleteMany(S, filter, env))

\* Get that looks the document up by the custom field
get_byCustomId(s, S, coll, id, env) ==
    IF id = EmptyId THEN Rejected(s, S, "id cannot be empty")
    ELSE LET c == getCollection(s, coll, env)
         IN  IF Failed(c) THEN Only(c, S)
             ELSE {[r |-> Done(c.s, o.err, NilErr, c.calls \o <<"FindOne">>, o.ret), store |-> o.store] :
                     o \in FindOne(S, Eq("id", id), env)}

\* Get returns the SingleResult and a nil error whatever FindOne found
get(s, S, coll, id, env) ==
    IF id = EmptyId THEN Rejected(s, S, "id cannot be empty")
    ELSE LET c == getCollection(s, coll, env)
         IN  IF Failed(c) THEN Only(c, S)
             ELSE {[r |-> Done(c.s, o.err, NilErr, c.calls \o <<"FindOne">>, o.ret), store |-> o.store] :
                     o \in FindOne(S, idFilter(id), env)}

getCustom(s, S, coll, filter, env) ==
    IF filter.kind = "nil" THEN Rejected(s, S, "filter cannot be nil")
    ELSE LET c == getCollection(s, coll, env)
         IN  IF Failed(c) THEN Only(c, S)
             ELSE {[r |-> Done(c.s, o.err, NilErr, c.calls \o <<"FindOne">>, o.ret), store |-> o.store] :
                     o \in FindOne(S, filter, env)}

\* findByID that looks one document up and fails when there is none
findByID_one(s, S, coll, id, result, env) ==
    IF id = EmptyId THEN Rejected(s, S, "id cannot be empty")
    ELSE IF ~result THEN Rejected(s, S, "result cannot be nil")
    ELSE LET c == getCollection(s, coll, env)
         IN  IF Failed(c) THEN Only(c, S)
             ELSE Driver(c, "FindOne", FindOne(S, idFilter(id), env))

findByID(s, S, coll, id, result, env) ==
    IF id = EmptyId THEN Rejected(s, S, "id cannot be empty")
    ELSE IF ~result THEN Rejected(s, S, "result cannot be nil")
    ELSE LET c == getCollection(s, coll, env)
         IN  IF Failed(c) THEN Only(c, S)
             ELSE Driver(c, "Find", Find(S, idFilter(id), env))

findAll(s, S, coll, filter, result, env) ==
    IF filter.kind = "nil" THEN Rejected(s, S, "filter cannot be nil")
    ELSE IF ~result THEN Rejected(s, S, "result cannot be nil")
    ELSE LET c == getCollection(s, coll, env)
         IN  IF Failed(c) THEN Only(c, S)
             ELSE Driver(c, "Find", Find(S, filter, env))

\* count >= 0
Found_nonNegative(outs) == {[o EXCEPT !.ret.found = (o.err = NilErr /\ o.ret.n >= 0)] : o \in outs}

\* count > 0
Found(outs) == {[o EXCEPT !.ret.found = (o.err = NilErr /\ o.ret.n > 0)] : o \in outs}

exists(s, S, coll, id, env) ==
    IF id = EmptyId THEN Rejected(s, S, "id cannot be empty")
    ELSE LET c == getCollection(s, coll, env)
         IN  IF Failed(c) THEN Only(c, S)
             ELSE Driver(c, "CountDocuments", Found(CountDocuments(S, idFilter(id), env)))

existsCustom(s, S, coll, filter, env) ==
    IF filter.kind = "nil" THEN Rejected(s, S, "filter cannot be nil")
    ELSE LET c == getCollection(s, coll, env)
         IN  IF Failed(c) THEN Only(c, S)
             ELSE Driver(c, "CountDocuments", Found(CountDocuments(S, filter, env)))

aggregate(s, S, coll, pipeline, result, env) ==
    IF ~pipeline THEN Rejected(s, S, "pipeline cannot be nil")
    ELSE IF ~result THEN Rejected(s, S, "result cannot be nil")
    ELSE LET c == getCollection(s, coll, env)
         IN  IF Failed(c) THEN Only(c, S)
             ELSE Driver(c, "Aggregate", Aggregate(S, env))

collection(s, S, coll, env) == Only(getCollection(s, coll, env), S)

---------------------------------------------------------------------------
\* Arguments the caller passes.

Colls == {"", "test_collection"}
IdArgs == {EmptyId} \cup Ids
FilterArgs ==
    {NilFilter}
        \cup {Eq(f, v) : f \in {"_id", "id"}, v \in Ids}
        \cup {Eq("name", v) : v \in Names}
        \cup {In("_id", V) : V \in {W \in SUBSET Ids : Cardinality(W) >= 2}}
\* $set documents: one field, or the two fields id and name
SetArgs ==
    {NilData}
        \cup {Data(f :> v) : f \in {"_id", "id"}, v \in Ids}
        \cup {Data("name" :> v) : v \in Names}
        \cup {Data(("id" :> x) @@ ("name" :> n)) : x \in Ids, n \in Names}
DocArgs == {NilData} \cup {Data(d) : d \in Docs}
\* no, one or two documents; two documents differ at most in their _id
ManyArgs ==
    {<<>>}
        \cup {<<d>> : d \in Docs}
        \cup {<<d, [d EXCEPT !["_id"] = i]>> : d \in Docs, i \in Ids}

\* one collection operation: some outcome o of it is taken
Operation(op, args, outs) ==
    /\ \E o \in outs :
        /\ PutConn(o.r.s)
        /\ store' = o.store
        /\ last' = Call(op, args, o.r)
    /\ UNCHANGED <<made, ConnectionUrl, DatabaseName, closed, revVars, goVars>>

Add ==
    /\ Callable
    /\ \E coll \in Colls, data \in DocArgs, env \in Envs :
        Operation("Add", [NoArgs EXCEPT !.coll = coll, !.data = data],
                  add(Conn, store, coll, data, env))

AddMany ==
    /\ Callable
    /\ \E coll \in Colls, many \in ManyArgs, env \in Envs :
        Operation("AddMany", [NoArgs EXCEPT !.coll = coll, !.many = many],
                  addMany(Conn, store, coll, many, env))

Update ==
    /\ Callable
    /\ \E coll \in Colls, id \in IdArgs, data \in SetArgs, env \in Envs :
        Operation("Update", [NoArgs EXCEPT !.coll = coll, !.id = id, !.data = data],
                  update(Conn, store, coll, id, data, env))

UpdateCustom ==
    /\ Callable
    /\ \E coll \in Colls, filter \in FilterArgs, data \in SetArgs, env \in Envs :
        Operation("UpdateCustom", [NoArgs EXCEPT !.coll = coll, !.filter = filter, !.data = data],
                  updateCustom(Conn, store, coll, filter, data, env))

UpdateManyOp ==
    /\ Callable
    /\ \E coll \in Colls, filter \in FilterArgs, data \in SetArgs, env \in Envs :
        Operation("UpdateMany", [NoArgs EXCEPT !.coll = coll, !.filter = filter, !.data = data],
                  updateMany(Conn, store, coll, filter, data, env))

Delete ==
    /\ Callable
    /\ \E coll \in Colls, id \in IdArgs, env \in Envs :
        Operation("Delete", [NoArgs EXCEPT !.coll = coll, !.id = id],
                  delete(Conn, store, coll, id, env))

DeleteCustom ==
    /\ Callable
    /\ \E coll \in Colls, filter \in FilterArgs, env \in Envs :
        Operation("DeleteCustom", [NoArgs EXCEPT !.coll = coll, !.filter = filter],
                  deleteCustom(Conn, store, coll, filter, env))

DeleteManyOp ==
    /\ Callable
    /\ \E coll \in Colls, filter \in FilterArgs, env \in Envs :
        Operation("DeleteMany", [NoArgs EXCEPT !.coll = coll, !.filter = filter],
                  deleteMany(Conn, store, coll, filter, env))

Get ==
    /\ Callable
    /\ \E coll \in Colls, id \in IdArgs, env \in Envs :
        Operation("Get", [NoArgs EXCEPT !.coll = coll, !.id = id],
                  get(Conn, store, coll, id, env))

GetCustom ==
    /\ Callable
    /\ \E coll \in Colls, filter \in FilterArgs, env \in Envs :
        Operation("GetCustom", [NoArgs EXCEPT !.coll = coll, !.filter = filter],
                  getCustom(Conn, store, coll, filter, env))

FindByID ==
    /\ Callable
    /\ \E coll \in Colls, id \in IdArgs, result \in BOOLEAN, env \in Envs :
        Operation("FindByID", [NoArgs EXCEPT !.coll = coll, !.id = id, !.result = result],
                  findByID(Conn, store, coll, id, result, env))

FindAll ==
    /\ Callable
    /\ \E coll \in Colls, filter \in FilterArgs, result \in BOOLEAN, env \in Envs :
        Operation("FindAll", [NoArgs EXCEPT !.coll = coll, !.filter = filter, !.result = result],
                  findAll(Conn, store, coll, filter, result, env))

Exists ==
    /\ Callable
    /\ \E coll \in Colls, id \in IdArgs, env \in Envs :
        Operation("Exists", [NoArgs EXCEPT !.coll = coll, !.id = id],
                  exists(Conn, store, coll, id, env))

ExistsCustom ==
    /\ Callable
    /\ \E coll \in Colls, filter \in FilterArgs, env \in Envs :
        Operation("ExistsCustom", [NoArgs EXCEPT !.coll = coll, !.filter = filter],
                  existsCustom(Conn, store, coll, filter, env))

AggregateOp ==
    /\ Callable
    /\ \E coll \in Colls, pipeline \in BOOLEAN, result \in BOOLEAN, env \in Envs :
        Operation("Aggregate",
                  [NoArgs EXCEPT !.coll = coll, !.pipeline = pipeline, !.result = result],
                  aggregate(Conn, store, coll, pipeline, result, env))

Collection ==
    /\ Callable
    /\ \E coll \in Colls, env \in Envs :
        Operation("Collection", [NoArgs EXCEPT !.coll = coll],
                  collection(Conn, store, coll, env))

\* the caller takes the result of the call that returned
Return ==
    /\ ~Ready
    /\ last.out = "return"
    /\ last' = Idle
    /\ UNCHANGED <<made, ConnectionUrl, DatabaseName, client, connected, opened, live, closed, store,
                   revVars, goVars>>

Next ==
    \/ NewMongoClient
    \/ Close
    \/ IsConnected
    \/ Database
    \/ RawClient
    \/ Ping
    \/ DropDatabase
    \/ Add
    \/ AddMany
    \/ Update
    \/ UpdateCustom
    \/ UpdateManyOp
    \/ Delete
    \/ DeleteCustom
    \/ DeleteManyOp
    \/ Get
    \/ GetCustom
    \/ FindByID
    \/ FindAll
    \/ Exists
    \/ ExistsCustom
    \/ AggregateOp
    \/ Collection
    \/ Return

Spec == Init /\ [][Next]_vars

---------------------------------------------------------------------------
\* The per-operation-connection revisions (mongo.go): every operation opens a
\* driver client with client(), defers its Disconnect, makes its driver call
\* and returns.  The struct holds the URL and the database name only.

ErrCanceled == Err("context canceled")

\* the faults of one operation, and whether a driver call that is handed a
\* cancelled context fails for that reason
WithCtx(e, x) ==
    [connect |-> e.connect, ping |-> e.ping, disconnect |-> e.disconnect, call |-> e.call,
     ctx |-> x]
RevEnvs ==
    {WithCtx(e, FALSE) :
        e \in {NoFault, [NoFault EXCEPT !.connect = TRUE]} \cup CallFaults \cup DisconnectFaults}
        \cup {WithCtx(e, TRUE) : e \in {NoFault} \cup DisconnectFaults}

\* MongoClient and Client defer cancel() in client(): the context they return
\* is cancelled; NewMongoDbClient drops the cancel function
CancelsCtx(rv) == rv # RevNewMongoDbClient

\* client(): mongo.Connect under a 10 s context.  A failed Connect panics in
\* MongoClient and NewMongoDbClient and is returned in Client.
clientCtx(rv, s, env) ==
    LET calls == IF CancelsCtx(rv) THEN <<"Connect", "cancel">> ELSE <<"Connect">>
        h == s.opened + 1
    IN  IF env.connect
        THEN [s |-> s, h |-> NilHandle, cancelled |-> CancelsCtx(rv), calls |-> calls,
              err |-> IF rv = RevClient THEN ErrConnect ELSE NilErr,
              out |-> IF rv = RevClient THEN "return" ELSE "panic"]
        ELSE [s |-> [s EXCEPT !.opened = h, !.live = @ \cup {h}], h |-> h,
              cancelled |-> CancelsCtx(rv), calls |-> calls, err |-> NilErr, out |-> "return"]

\* the deferred client.Disconnect(ctx): its error is dropped
disconnect(s, h, env) == IF env.disconnect THEN s ELSE [s EXCEPT !.live = @ \ {h}]

\* the driver call made with the context client() returned
WithContext(c, S, outs, env) ==
    IF c.cancelled /\ env.ctx
    THEN {[store |-> S, err |-> ErrCanceled, ret |-> [NoRet EXCEPT !.err = ErrCanceled]]}
    ELSE outs

\* an operation that ended in client()
NoClient(c, S) ==
    {[r |-> IF c.out = "panic" THEN Panicked(c.s, c.calls) ELSE Stopped(c.s, c.err, c.calls),
      store |-> S, handed |-> {}, undone |-> {}]}

\* an operation that disconnects only when its driver call succeeded
perOperation_leaksOnError(rv, s, S, name, outs, forwards, env) ==
    LET c == clientCtx(rv, s, env)
    IN  IF c.out = "panic" \/ c.err # NilErr THEN NoClient(c, S)
        ELSE {[r |-> [Done(IF o.err = NilErr THEN disconnect(c.s, c.h, env) ELSE c.s, o.err,
                           IF forwards THEN o.err ELSE NilErr,
                           c.calls \o (IF o.err = NilErr THEN <<name, "Disconnect">> ELSE <<name>>),
                           o.ret)
                        EXCEPT !.at = c.s],
               store |-> o.store, handed |-> {},
               undone |-> IF env.disconnect /\ o.err = NilErr THEN {c.h} ELSE {}] :
                o \in WithContext(c, S, outs, env)}

\* an operation around its driver call `name`: client(), defer Disconnect,
\* the call, return its result (and its error when the operation forwards it)
perOperation(rv, s, S, name, outs, forwards, env) ==
    LET c == clientCtx(rv, s, env)
    IN  IF c.out = "panic" \/ c.err # NilErr THEN NoClient(c, S)
        ELSE {[r |-> [Done(disconnect(c.s, c.h, env), o.err,
                           IF forwards THEN o.err ELSE NilErr,
                           c.calls \o <<name, "Disconnect">>, o.ret)
                        EXCEPT !.at = c.s],
               store |-> o.store, handed |-> {},
               undone |-> IF env.disconnect THEN {c.h} ELSE {}] :
                o \in WithContext(c, S, outs, env)}

\* a filter on the native key in every revision
revFilter_native(rv, id) == Eq("_id", id)

\* the filter of the by-id operations: "id" in MongoClient and
\* NewMongoDbClient, "_id" in Client
revFilter(rv, id) == IF rv = RevClient THEN Eq("_id", id) ELSE Eq("id", id)

revAdd(rv, s, S, data, env) ==
    perOperation(rv, s, S, "InsertOne", InsertOne(S, data.doc, env), TRUE, env)

revAddMany(rv, s, S, many, env) ==
    perOperation(rv, s, S, "InsertMany", InsertMany(S, many, env), TRUE, env)

revUpdate(rv, s, S, id, data, env) ==
    perOperation(rv, s, S, "UpdateOne", UpdateOne(S, revFilter(rv, id), data.doc, env), TRUE, env)

revDelete(rv, s, S, id, env) ==
    perOperation(rv, s, S, "DeleteOne", DeleteOne(S, revFilter(rv, id), env), TRUE, env)

\* Get and GetCustom return the SingleResult, in Client with a nil error
revGet(rv, s, S, id, env) ==
    perOperation(rv, s, S, "FindOne", FindOne(S, revFilter(rv, id), env), FALSE, env)

revGetCustom(rv, s, S, filter, env) ==
    perOperation(rv, s, S, "FindOne", FindOne(S, filter, env), FALSE, env)

revGetAll(rv, s, S, id, env) ==
    perOperation(rv, s, S, "Find", Find(S, revFilter(rv, id), env), TRUE, env)

revGetAllCustom(rv, s, S, filter, env) ==
    perOperation(rv, s, S, "Find", Find(S, filter, env), TRUE, env)

\* DB(): the database handle of a client that the deferred Disconnect closes
revDB(rv, s, S, env) ==
    LET c == clientCtx(rv, s, env)
    IN  IF c.out = "panic" \/ c.err # NilErr THEN NoClient(c, S)
        ELSE {[r |-> [Done(disconnect(c.s, c.h, env), NilErr, NilErr,
                           c.calls \o <<"Disconnect">>,
                           [NoRet EXCEPT !.h = c.h, !.name = DatabaseName])
                        EXCEPT !.at = c.s],
               store |-> S, handed |-> {}, undone |-> IF env.disconnect THEN {c.h} ELSE {}]}

\* Collection(): NewMongoDbClient defers Disconnect like every operation;
\* MongoClient and Client return the collection with its connected client
revCollection(rv, s, S, coll, env) ==
    LET c == clientCtx(rv, s, env)
    IN  IF c.out = "panic" \/ c.err # NilErr THEN NoClient(c, S)
        ELSE IF rv = RevNewMongoDbClient
        THEN {[r |-> [Done(disconnect(c.s, c.h, env), NilErr, NilErr,
                           c.calls \o <<"Disconnect">>,
                           [NoRet EXCEPT !.h = c.h, !.name = coll])
                        EXCEPT !.at = c.s],
               store |-> S, handed |-> {}, undone |-> IF env.disconnect THEN {c.h} ELSE {}]}
        ELSE {[r |-> Done(c.s, NilErr, NilErr, c.calls, [NoRet EXCEPT !.h = c.h, !.name = coll]),
               store |-> S, handed |-> {c.h}, undone |-> {}]}

\* RawClient(): what client() returns
revRawClient(rv, s, S, env) ==
    LET c == clientCtx(rv, s, env)
    IN  IF c.out = "panic" \/ c.err # NilErr THEN NoClient(c, S)
        ELSE {[r |-> Done(c.s, NilErr, NilErr, c.calls, [NoRet EXCEPT !.h = c.h]),
               store |-> S, handed |-> {c.h}, undone |-> {}]}

\* the operations each revision has
RevOps(rv) ==
    CASE rv = RevNewMongoDbClient -> {"Add", "Update", "Delete", "Get", "Collection", "DB"}
      [] rv = RevMongoClient ->
            {"Add", "AddMany", "Update", "Delete", "Get", "GetCustom", "GetAll", "GetAllCustom",
             "Collection", "DB"}
      [] OTHER ->
            {"Add", "AddMany", "Update", "Delete", "Get", "GetCustom", "GetAll", "GetAllCustom",
             "Collection", "DB", "RawClient"}

\* the collections a server can hold: no two documents share an _id
Stores == {S \in SUBSET Docs : \A d, e \in S : d["_id"] = e["_id"] => d = e}

\* a program built from one revision; a mongo.go client is a struct value
\* (NewMongoClient of the Client revision only fills it in) and the server
\* holds the documents of earlier runs
InitRevisions ==
    \/ Init
    \/ /\ rev \in LegacyRevisions
       /\ made = TRUE
       /\ ConnectionUrl = "mongodb://localhost:27017"
       /\ DatabaseName = "test"
       /\ client = NilHandle
       /\ connected = FALSE
       /\ opened = 0
       /\ live = {}
       /\ closed = FALSE
       /\ store \in Stores
       /\ last = Idle
       /\ handed = {}
       /\ undone = {}
       /\ pc = [g \in Goroutines |-> "idle"]
       /\ mutex = Unlocked
       /\ got = [g \in Goroutines |-> NoHandle]

\* the caller holds a client of revision rv that has operation op
RevCallable(op) ==
    /\ Ready
    /\ rev \in LegacyRevisions
    /\ op \in RevOps(rev)
    /\ opened < MaxClients

\* one operation of a mongo.go revision: some outcome o of it is taken
RevOperation(op, args, outs) ==
    /\ \E o \in outs :
        /\ opened' = o.r.s.opened
        /\ live' = o.r.s.live
        /\ store' = o.store
        /\ handed' = handed \cup o.handed
        /\ undone' = undone \cup o.undone
        /\ last' = Call(op, args, o.r)
    /\ UNCHANGED <<made, ConnectionUrl, DatabaseName, client, connected, closed, rev, goVars>>

TestCollection == "test_collection"

RevAdd ==
    /\ RevCallable("Add")
    /\ \E data \in DocArgs \ {NilData}, env \in RevEnvs :
        RevOperation("Add", [NoArgs EXCEPT !.coll = TestCollection, !.data = data],
                     revAdd(rev, Conn, store, data, env))

RevAddMany ==
    /\ RevCallable("AddMany")
    /\ \E many \in ManyArgs \ {<<>>}, env \in RevEnvs :
        RevOperation("AddMany", [NoArgs EXCEPT !.coll = TestCollection, !.many = many],
                     revAddMany(rev, Conn, store, many, env))

RevUpdate ==
    /\ RevCallable("Update")
    /\ \E id \in Ids, data \in SetArgs \ {NilData}, env \in RevEnvs :
        RevOperation("Update", [NoArgs EXCEPT !.coll = TestCollection, !.id = id, !.data = data],
                     revUpdate(rev, Conn, store, id, data, env))

RevDelete ==
    /\ RevCallable("Delete")
    /\ \E id \in Ids, env \in RevEnvs :
        RevOperation("Delete", [NoArgs EXCEPT !.coll = TestCollection, !.id = id],
                     revDelete(rev, Conn, store, id, env))

RevGet ==
    /\ RevCallable("Get")
    /\ \E id \in Ids, env \in RevEnvs :
        RevOperation("Get", [NoArgs EXCEPT !.coll = TestCollection, !.id = id],
                     revGet(rev, Conn, store, id, env))

RevGetCustom ==
    /\ RevCallable("GetCustom")
    /\ \E filter \in FilterArgs \ {NilFilter}, env \in RevEnvs :
        RevOperation("GetCustom", [NoArgs EXCEPT !.coll = TestCollection, !.filter = filter],
                     revGetCustom(rev, Conn, store, filter, env))

RevGetAll ==
    /\ RevCallable("GetAll")
    /\ \E id \in Ids, env \in RevEnvs :
        RevOperation("GetAll",
                     [NoArgs EXCEPT !.coll = TestCollection, !.id = id, !.result = TRUE],
                     revGetAll(rev, Conn, store, id, env))

RevGetAllCustom ==
    /\ RevCallable("GetAllCustom")
    /\ \E filter \in FilterArgs \ {NilFilter}, env \in RevEnvs :
        RevOperation("GetAllCustom",
                     [NoArgs EXCEPT !.coll = TestCollection, !.filter = filter, !.result = TRUE],
                     revGetAllCustom(rev, Conn, store, filter, env))

RevCollection ==
    /\ RevCallable("Collection")
    /\ \E coll \in Colls, env \in RevEnvs :
        RevOperation("Collection", [NoArgs EXCEPT !.coll = coll],
                     revCollection(rev, Conn, store, coll, env))

RevDB ==
    /\ RevCallable("DB")
    /\ \E env \in RevEnvs : RevOperation("DB", NoArgs, revDB(rev, Conn, store, env))

RevRawClient ==
    /\ RevCallable("RawClient")
    /\ \E env \in RevEnvs : RevOperation("RawClient", NoArgs, revRawClient(rev, Conn, store, env))

\* the caller disconnects a client that Collection or RawClient returned
CallerDisconnect ==
    /\ Ready
    /\ rev \in LegacyRevisions
    /\ \E h \in handed :
        /\ live' = live \ {h}
        /\ handed' = handed \ {h}
    /\ UNCHANGED <<made, ConnectionUrl, DatabaseName, client, connected, opened, closed, store,
                   last, rev, undone, goVars>>

\* the final revision, as in Spec
FinalRevision == rev = RevFinal /\ Next

RevReturn == rev \in LegacyRevisions /\ Return

NextRevisions ==
    \/ FinalRevision
    \/ RevAdd
    \/ RevAddMany
    \/ RevUpdate
    \/ RevDelete
    \/ RevGet
    \/ RevGetCustom
    \/ RevGetAll
    \/ RevGetAllCustom
    \/ RevCollection
    \/ RevDB
    \/ RevRawClient
    \/ CallerDisconnect
    \/ RevReturn

SpecRevisions == InitRevisions /\ [][NextRevisions]_vars

---------------------------------------------------------------------------
\* Goroutines that share one Client of the final revision.  Each goroutine
\* runs an operation (getClient, then the driver call on the handle it got),
\* Close or IsConnected, one statement at a time; Client.mutex is held where
\* the code holds it.  The driver's Connect and Ping succeed.

\* the Client as NewMongoClient returned it
InitGoroutines ==
    /\ made = TRUE
    /\ ConnectionUrl = "mongodb://localhost:27017"
    /\ DatabaseName = "test"
    /\ client = 1
    /\ connected = TRUE
    /\ opened = 1
    /\ live = {1}
    /\ closed = FALSE
    /\ store = {}
    /\ last = Idle
    /\ rev = RevFinal
    /\ handed = {}
    /\ undone = {}
    /\ pc = [g \in Goroutines |-> "idle"]
    /\ mutex = Unlocked
    /\ got = [g \in Goroutines |-> NoHandle]

\* a panic ends the program
Running == \A g \in Goroutines : pc[g] # "panic"

RLock(g) == mutex.writer = NoOne /\ mutex' = [mutex EXCEPT !.readers = @ \cup {g}]
RUnlock(g) == mutex' = [mutex EXCEPT !.readers = @ \ {g}]
Lock(g) == mutex = Unlocked /\ mutex' = [mutex EXCEPT !.writer = g]
Unlock(g) == mutex' = [mutex EXCEPT !.writer = NoOne]

Goto(g, at) == pc' = [pc EXCEPT ![g] = at]
GoFrame == UNCHANGED <<made, ConnectionUrl, DatabaseName, store, last, revVars>>
ConnFrame == UNCHANGED <<client, connected, opened, live, closed>>

\* a goroutine calls an operation, Close() or IsConnected()
GoCall(g) ==
    /\ Running
    /\ pc[g] = "idle"
    /\ \E f \in {"operation", "close", "isConnected"} : Goto(g, f)
    /\ got' = [got EXCEPT ![g] = NoHandle]
    /\ UNCHANGED mutex
    /\ GoFrame /\ ConnFrame

\* the operation's getClient takes the read lock
GetClientRLock(g) ==
    /\ Running
    /\ pc[g] = "operation"
    /\ RLock(g)
    /\ Goto(g, "getClient")
    /\ UNCHANGED got
    /\ GoFrame /\ ConnFrame

\* getClient that keeps its read lock when it goes on to connect()
GetClientCheck_keepsRLock(g) ==
    /\ Running
    /\ pc[g] = "getClient"
    /\ IF connected /\ client # NilHandle
       THEN /\ RUnlock(g)
            /\ got' = [got EXCEPT ![g] = [NoHandle EXCEPT !.h = client, !.returned = TRUE]]
            /\ Goto(g, "call")
       ELSE /\ Goto(g, "connect")
            /\ UNCHANGED <<got, mutex>>
    /\ GoFrame /\ ConnFrame

\* if c.connected && c.client != nil: unlock and return c.client, nil;
\* else unlock and go on to connect()
GetClientCheck(g) ==
    /\ Running
    /\ pc[g] = "getClient"
    /\ RUnlock(g)
    /\ IF connected /\ client # NilHandle
       THEN /\ got' = [got EXCEPT ![g] = [NoHandle EXCEPT !.h = client, !.returned = TRUE]]
            /\ Goto(g, "call")
       ELSE /\ Goto(g, "connect")
            /\ UNCHANGED got
    /\ GoFrame /\ ConnFrame

\* connect() takes the write lock
ConnectLock(g) ==
    /\ Running
    /\ pc[g] = "connect"
    /\ Lock(g)
    /\ Goto(g, "connecting")
    /\ UNCHANGED got
    /\ GoFrame /\ ConnFrame

\* the body of connect() under the lock, and its deferred Unlock
ConnectBody(g) ==
    /\ Running
    /\ pc[g] = "connecting"
    /\ CanConnect(Conn)
    /\ LET r == connect(Conn, NoFault)
       IN  /\ PutConn(r.s)
           /\ IF r.err # NilErr
              THEN /\ got' = [got EXCEPT ![g] = [NoHandle EXCEPT !.err = r.err, !.returned = TRUE]]
                   /\ Goto(g, "done")
              ELSE /\ Goto(g, "reread")
                   /\ UNCHANGED got
    /\ Unlock(g)
    /\ UNCHANGED closed
    /\ GoFrame

\* after connect(): getClient takes the read lock again
GetClientRLock2(g) ==
    /\ Running
    /\ pc[g] = "reread"
    /\ RLock(g)
    /\ Goto(g, "read")
    /\ UNCHANGED got
    /\ GoFrame /\ ConnFrame

\* return c.client, nil and the deferred RUnlock
GetClientRead(g) ==
    /\ Running
    /\ pc[g] = "read"
    /\ RUnlock(g)
    /\ got' = [got EXCEPT ![g] = [NoHandle EXCEPT !.h = client, !.returned = TRUE]]
    /\ Goto(g, "call")
    /\ GoFrame /\ ConnFrame

\* the operation's driver call on the handle getClient returned: a nil
\* handle is dereferenced, a disconnected one fails in the driver
DriverCall(g) ==
    /\ Running
    /\ pc[g] = "call"
    /\ LET use == IF got[g].h = NilHandle THEN "nil"
                  ELSE IF got[g].h \notin live THEN "disconnected" ELSE "ok"
       IN  /\ got' = [got EXCEPT ![g].use = use]
           /\ Goto(g, IF use = "nil" THEN "panic" ELSE "done")
    /\ UNCHANGED mutex
    /\ GoFrame /\ ConnFrame

\* the operation returns to its goroutine
GoReturn(g) ==
    /\ Running
    /\ pc[g] = "done"
    /\ Goto(g, "idle")
    /\ UNCHANGED <<mutex, got>>
    /\ GoFrame /\ ConnFrame

\* Close() takes the write lock
CloseLock(g) ==
    /\ Running
    /\ pc[g] = "close"
    /\ Lock(g)
    /\ Goto(g, "closing")
    /\ UNCHANGED got
    /\ GoFrame /\ ConnFrame

\* the body of Close() under the lock, and its deferred Unlock
CloseBody(g) ==
    /\ Running
    /\ pc[g] = "closing"
    /\ \E env \in {NoFault} \cup DisconnectFaults :
        LET c == close(Conn, env)
        IN  /\ PutConn(c.s)
            /\ got' = [got EXCEPT ![g] = [NoHandle EXCEPT !.err = c.err]]
    /\ closed' = TRUE
    /\ Unlock(g)
    /\ Goto(g, "idle")
    /\ GoFrame

\* IsConnected() takes the read lock
IsConnectedRLock(g) ==
    /\ Running
    /\ pc[g] = "isConnected"
    /\ RLock(g)
    /\ Goto(g, "checking")
    /\ UNCHANGED got
    /\ GoFrame /\ ConnFrame

\* return c.connected and the deferred RUnlock
IsConnectedRead(g) ==
    /\ Running
    /\ pc[g] = "checking"
    /\ RUnlock(g)
    /\ got' = [got EXCEPT ![g] = [NoHandle EXCEPT !.is = connected, !.returned = TRUE]]
    /\ Goto(g, "idle")
    /\ GoFrame /\ ConnFrame

NextGoroutines ==
    \E g \in Goroutines :
        \/ GoCall(g)
        \/ GetClientRLock(g)
        \/ GetClientCheck(g)
        \/ ConnectLock(g)
        \/ ConnectBody(g)
        \/ GetClientRLock2(g)
        \/ GetClientRead(g)
        \/ DriverCall(g)
        \/ GoReturn(g)
        \/ CloseLock(g)
        \/ CloseBody(g)
        \/ IsConnectedRLock(g)
        \/ IsConnectedRead(g)

SpecGoroutines == InitGoroutines /\ [][NextGoroutines]_vars

\* The same goroutines under fair scheduling.  A goroutine that can take a
\* step that waits for nothing takes it: the Go scheduler runs every
\* runnable goroutine, and every driver call returns.
Scheduled(g) ==
    /\ WF_vars(GetClientCheck(g))
    /\ WF_vars(ConnectBody(g))
    /\ WF_vars(GetClientRead(g))
    /\ WF_vars(DriverCall(g))
    /\ WF_vars(GoReturn(g))
    /\ WF_vars(CloseBody(g))
    /\ WF_vars(IsConnectedRead(g))

\* g is blocked in c.mutex.RLock() or c.mutex.Lock()
Waits(g) == pc[g] \in {"operation", "reread", "isConnected", "connect", "close"}

\* g holds c.mutex
Holds(g) == mutex.writer = g \/ g \in mutex.readers

\* sync.RWMutex starves no caller: a pending Lock keeps new readers out, the
\* readers blocked behind a writer are admitted when it unlocks, and writers
\* queue on a sync.Mutex, which hands the lock to a waiter that has waited
\* long.  So a goroutine waits for the mutex for ever only if some goroutine
\* holds it for ever.
MutexFair(g) == (<>[]Waits(g)) => \E h \in Goroutines : <>[]Holds(h)

Fairness == \A g \in Goroutines : Scheduled(g) /\ MutexFair(g)

SpecFair == InitGoroutines /\ [][NextGoroutines]_vars /\ Fairness

---------------------------------------------------------------------------
\* Properties.

\* the operations that need the connection
ConnOps ==
    {"Add", "AddMany", "Update", "UpdateCustom", "UpdateMany", "Delete", "DeleteCustom",
     "DeleteMany", "Get", "GetCustom", "FindByID", "FindAll", "Exists", "ExistsCustom",
     "Aggregate", "Collection", "Database", "RawClient", "DropDatabase", "Ping"}
\* the operations on a collection
CollOps == ConnOps \ {"Database", "RawClient", "DropDatabase", "Ping"}
\* the operations that return the error of their own driver call
DriverOps == ConnOps \ {"Get", "GetCustom", "Collection", "Database", "RawClient"}

ConnAfter == [client |-> client', connected |-> connected', opened |-> opened', live |-> live']
\* the call returned a nil error
Succeeded(c) == c.out = "return" /\ c.err = NilErr
\* the call reached its own driver call, and that call did not fail
Reached(c, name) ==
    /\ c.out = "return"
    /\ Len(c.calls) > 0
    /\ c.calls[Len(c.calls)] = name
    /\ c.drv = NilErr
\* an argument is one the operation rejects
InvalidArgs(c) ==
    \/ c.op \in CollOps /\ c.args.coll = ""
    \/ c.op \in {"Update", "Delete", "Get", "FindByID", "Exists"} /\ c.args.id = EmptyId
    \/ c.op \in {"Add", "Update", "UpdateCustom", "UpdateMany"} /\ c.args.data.nil
    \/ c.op = "AddMany" /\ Len(c.args.many) = 0
    \/ c.op \in {"UpdateCustom", "UpdateMany", "DeleteCustom", "DeleteMany", "GetCustom",
                 "FindAll", "ExistsCustom"} /\ c.args.filter.kind = "nil"
    \/ c.op = "Aggregate" /\ ~c.args.pipeline
    \/ c.op \in {"FindByID", "FindAll", "Aggregate"} /\ ~c.args.result
\* the call had valid arguments, got its connection, and the driver did not
\* fail during its own call
Served(c) == ~InvalidArgs(c) /\ c.at.connected /\ c.drv # ErrCall
\* document e is document d with exactly the given fields set
IsSet(d, e, fields) ==
    \A f \in Fields : e[f] = IF f \in DOMAIN fields THEN fields[f] ELSE d[f]

\* C1: whenever NewMongoClient returns a nil error, the client is connected
\* and its stored driver handle is non-nil, whatever Connect and Ping did.
C1_NewClientIsConnected ==
    (last.op = "NewMongoClient" /\ Succeeded(last)) => (connected /\ client # NilHandle)

\* C2: once Close() has returned, an operation that needs the connection and
\* returns a nil error leaves the client connected.
C2_ReconnectOnDemand ==
    [][(closed /\ ~connected /\ last'.op \in ConnOps /\ Succeeded(last')) => connected']_vars

\* C3: Close() on a connected client leaves IsConnected() false, and it stays
\* false until an operation that needs the connection connects again.
C3_CloseDisconnects ==
    [][/\ (connected /\ last'.op = "Close") => (~connected' /\ client' = NilHandle)
       /\ (last'.op = "IsConnected") => (last'.ret.found = connected /\ connected' = connected)
       /\ (~connected /\ connected') =>
            (last'.op \in ConnOps \cup {"NewMongoClient"} /\ last'.calls # <<>>
                /\ last'.calls[1] = "Connect")]_vars
C3_Witness ==
    /\ last.op = "IsConnected"
    /\ closed
    /\ opened = 1
    /\ ~last.ret.found

\* C4: Get, Update, Delete, Exists and FindByID called with x select exactly
\* the stored documents whose custom field "id" equals x.
C4_SelectsByCustomId ==
    [][LET c == last'
           byId == {d \in store : d["id"] = c.args.id}
       IN  /\ (c.op = "FindByID" /\ Reached(c, "Find")) => c.ret.docs = byId
           /\ (c.op = "Exists" /\ Reached(c, "CountDocuments")) => c.ret.found = (byId # {})
           /\ (c.op = "Get" /\ Reached(c, "FindOne")) => (c.ret.found /\ c.ret.docs \subseteq byId)
           /\ (c.op = "Get" /\ c.drv = ErrNoDocuments) => byId = {}
           /\ (c.op = "Update" /\ Reached(c, "UpdateOne")) =>
                (c.ret.matched = (IF byId = {} THEN 0 ELSE 1) /\ store \ store' \subseteq byId)
           /\ (c.op = "Delete" /\ Reached(c, "DeleteOne")) =>
                (c.ret.n = (IF byId = {} THEN 0 ELSE 1) /\ store \ store' \subseteq byId)]_vars

\* C5: when the driver call of an operation returns an error, the operation
\* returns exactly that error and the connected flag and the stored handle
\* are what they were when the call was made.
C5_DriverErrorForwarded ==
    (last.op \in DriverOps /\ last.drv # NilErr) =>
        /\ last.out = "return"
        /\ last.err = last.drv
        /\ connected = last.at.connected
        /\ client = last.at.client
C5_Witness ==
    /\ last.op = "Update"
    /\ last.drv = ErrImmutable
    /\ last.err = ErrImmutable
    /\ connected

\* C6: an operation called with an invalid argument returns a non-nil error
\* and makes no driver call.
C6_InvalidArgsRejected ==
    InvalidArgs(last) => (last.out = "return" /\ last.err # NilErr /\ last.calls = <<>>)
C6_Witness ==
    /\ last.op = "Update"
    /\ last.args.coll = ""
    /\ last.args.id # EmptyId
    /\ ~last.args.data.nil
    /\ ~connected
    /\ last.err = Err("collection name cannot be empty")

\* C7: NewMongoClient called with an empty URL or an empty database name
\* returns a nil client and a non-nil error and creates no driver client.
C7_EmptyUrlOrNameRejected ==
    (last.op = "NewMongoClient" /\ (last.args.url = "" \/ last.args.db = "")) =>
        /\ ~last.ret.found
        /\ ~made
        /\ last.err # NilErr
        /\ last.calls = <<>>
C7_Witness ==
    /\ last.op = "NewMongoClient"
    /\ last.args.url # ""
    /\ last.args.db = ""
    /\ last.err = Err("database name cannot be empty")

\* C8: a successful Update(x, fields), or UpdateCustom({_id: x}, fields), on
\* a stored document with _id = x sets exactly the given fields on it, leaves
\* the other documents unchanged, reports ModifiedCount = 1 exactly when a
\* value changed, and a following Get(x) yields the updated document.
IsUpdateOf(c, x) ==
    \/ c.op = "Update" /\ c.args.id = x
    \/ c.op = "UpdateCustom" /\ c.args.filter.kind = "eq" /\ c.args.filter.field = "_id"
         /\ c.args.filter.vals = {x}
C10_UpdateManySetsAll ==
    [][(last'.op = "UpdateMany" /\ Succeeded(last')) =>
        LET flt == last'.args.filter
            fields == last'.args.data.doc
            M == {d \in store : d[flt.field] \in flt.vals}
        IN  /\ \A d \in store \ M : d \in store'
            /\ \A d \in M : \E e \in store' : IsSet(d, e, fields)
            /\ \A e \in store' : e \in store \ M \/ \E d \in M : IsSet(d, e, fields)
            /\ last'.ret.matched = Cardinality(M)
            /\ last'.ret.n = Cardinality({d \in M : ~IsSet(d, d, fields)})
            /\ \A o \in findAll(ConnAfter, store', last'.args.coll, flt, TRUE, NoFault) :
                 /\ Succeeded(o.r)
                 /\ \A e \in o.r.ret.docs : \A f \in DOMAIN fields : e[f] = fields[f]]_vars
C10_Witness ==
    /\ last.op = "UpdateMany"
    /\ Succeeded(last)
    /\ last.ret.n = 2
    /\ last.args.filter.kind = "in"

\* the operations that can change or remove a stored document
Mutators ==
    {"Update", "UpdateCustom", "UpdateMany", "Delete", "DeleteCustom", "DeleteMany",
     "DropDatabase"}

ReconnectFailed(c) ==
    /\ c.op \in ConnOps
    /\ c.calls # <<>>
    /\ c.calls[1] = "Connect"
    /\ ~c.at.connected

\* C18: an operation whose reconnect fails, in Connect or in the verification
\* Ping, returns a non-nil error and does not dereference a nil handle.
C18_FailedReconnectIsAnError ==
    ReconnectFailed(last) => (last.out = "return" /\ last.err # NilErr)

\* the operations of the mongo.go revisions that return their driver client
HandsClient(rv, op) ==
    \/ op = "RawClient"
    \/ op = "Collection" /\ rv \in {RevMongoClient, RevClient}

ConnectFailed(c) ==
    /\ c.op \in ConnOps \cup {"DB", "GetAll", "GetAllCustom"}
    /\ c.calls \in {<<"Connect">>, <<"Connect", "cancel">>}
    /\ c.ret.h = NilHandle

\* C15: in every revision an operation whose Connect fails returns the
\* driver's error to its caller and does not panic.
C15_ConnectFailureReturned ==
    ConnectFailed(last) => (last.out = "return" /\ last.err = ErrConnect)

\* the call of a mongo.go revision made its driver call, which did not fail
RevReached(c, name) ==
    /\ c.out = "return"
    /\ Len(c.calls) >= 2
    /\ c.calls[Len(c.calls) - 1] = name
    /\ c.drv = NilErr

\* C16: in the MongoClient revision Get, Update, Delete and GetAll called
\* with x select by the field "id": GetAll returns exactly the documents
\* whose "id" is x, Get returns one of them, Update and Delete act on one of
\* them when there is one and on nothing otherwise, and a document whose
\* "id" is not x is never selected, whatever its "_id".
C16_MongoClientSelectsById ==
    [][rev = RevMongoClient =>
        LET c == last'
            byId == {d \in store : d["id"] = c.args.id}
        IN  /\ (c.op = "GetAll" /\ RevReached(c, "Find")) => c.ret.docs = byId
            /\ (c.op = "Get" /\ RevReached(c, "FindOne")) =>
                 (c.ret.found /\ Cardinality(c.ret.docs) = 1 /\ c.ret.docs \subseteq byId)
            /\ (c.op = "Get" /\ c.drv = ErrNoDocuments) => byId = {}
            /\ (c.op = "Update" /\ RevReached(c, "UpdateOne")) =>
                 /\ c.ret.matched = (IF byId = {} THEN 0 ELSE 1)
                 /\ store \ store' \subseteq byId
                 /\ Cardinality(store \ store') <= 1
            /\ (c.op = "Delete" /\ RevReached(c, "DeleteOne")) =>
                 /\ c.ret.n = (IF byId = {} THEN 0 ELSE 1)
                 /\ store \ store' \subseteq byId
                 /\ Cardinality(store \ store') = c.ret.n]_vars
C16_Witness ==
    /\ rev = RevMongoClient
    /\ last.op = "Get"
    /\ last.ret.found
    /\ \E d \in store : d["_id"] = last.args.id /\ d["id"] # last.args.id
    /\ \E d \in last.ret.docs : d["id"] = last.args.id /\ d["_id"] # last.args.id

\* C17: in every revision a Collection(n) that returns, n not empty, returns
\* a handle named n, and a Database() or DB() that returns returns a handle
\* named by the DatabaseName of the client, which is the name the client
\* was constructed with.
C17_HandleNames ==
    [][/\ (last'.op = "Collection" /\ Succeeded(last') /\ last'.args.coll # "") =>
            last'.ret.name = last'.args.coll
       /\ (last'.op \in {"Database", "DB"} /\ Succeeded(last')) =>
            (last'.ret.name = DatabaseName /\ last'.ret.name # "")
       /\ (last'.op = "NewMongoClient" /\ Succeeded(last')) => DatabaseName' = last'.args.db
       /\ made => DatabaseName' = DatabaseName]_vars
C17_Witness ==
    /\ rev = RevMongoClient
    /\ last.op = "Collection"
    /\ Succeeded(last)
    /\ last.ret.name = TestCollection
    /\ last.ret.h \in live
    /\ DatabaseName = "test"

\* C19: whatever the interleaving of operations and Close() calls, getClient
\* returns a non-nil handle or a non-nil error.
C19_GetClientNeverNilNil ==
    \A g \in Goroutines :
        (got[g].returned /\ pc[g] \in {"call", "done", "panic"}) =>
            (got[g].h # NilHandle \/ got[g].err # NilErr)

\* C20: a handle that getClient returned is connected while the operation
\* that obtained it has its driver call to make, so no driver call is made
\* on a handle that Close() has disconnected.
C20_HandleConnectedAtCall ==
    \A g \in Goroutines :
        /\ (pc[g] = "call" /\ got[g].h # NilHandle) => got[g].h \in live
        /\ got[g].use # "disconnected"

\* C21: an operation rejected by argument validation changes nothing of the
\* connection: on a closed client it does not reconnect and creates no driver
\* client, on a connected client the stored handle stays; it makes no driver
\* call at all.
C21_RejectedLeavesConnection ==
    [][InvalidArgs(last') =>
        /\ last'.err # NilErr
        /\ last'.calls = <<>>
        /\ ConnAfter = Conn
        /\ store' = store]_vars
C21_Witness ==
    /\ last.op = "Update"
    /\ last.args.coll # ""
    /\ last.args.id # EmptyId
    /\ last.args.data.nil
    /\ closed
    /\ ~connected
    /\ opened = 1
    /\ last.err = Err("data cannot be nil")

\* C22: while the client is connected an operation creates no driver client
\* and leaves the stored handle in place, its driver call is made on that
\* handle, Database, Collection and RawClient return it, and connect() is a
\* no-op that returns nil.
C22_HandleReuse ==
    [][(connected /\ last'.op \in ConnOps) =>
        /\ opened' = opened
        /\ live' = live
        /\ client' = client
        /\ connected'
        /\ last'.at.client = client
        /\ \A i \in 1..Len(last'.calls) : last'.calls[i] # "Connect"
        /\ (last'.op \in {"Database", "Collection", "RawClient"} /\ Succeeded(last')) =>
             last'.ret.h = client
        /\ \A env \in {NoFault} \cup ConnectFaults :
             connect(Conn, env) = [s |-> Conn, err |-> NilErr, calls |-> <<>>]]_vars
C22_Witness ==
    /\ last.op = "Add"
    /\ Succeeded(last)
    /\ last.calls = <<"InsertOne">>
    /\ Cardinality(store) = 2
    /\ closed
    /\ opened = 2
    /\ client = 2

\* a call that ran connect() and did not end connected
AttemptFailed(c) ==
    /\ c.op \in ConnOps \cup {"NewMongoClient"}
    /\ c.calls # <<>>
    /\ c.calls[1] = "Connect"
    /\ ~c.at.connected

C27_CloseDespiteDisconnectError ==
    [][/\ \A env \in DisconnectFaults :
            (connected /\ client # NilHandle) =>
                LET c == close(Conn, env)
                IN  c.err = ErrDisconnect /\ ~c.s.connected /\ c.s.client = NilHandle
       /\ (last'.op = "Close" /\ last'.drv = ErrDisconnect) =>
            /\ last'.err = ErrDisconnect
            /\ ~connected'
            /\ client' = NilHandle
            /\ LET o == ping(ConnAfter, NoFault)
               IN  /\ Succeeded(o)
                   /\ o.calls[1] = "Connect"
                   /\ o.s.client = opened' + 1
                   /\ o.s.client # client]_vars
C27_Witness ==
    /\ last.op = "Close"
    /\ last.err = ErrDisconnect
    /\ last.calls = <<"Disconnect">>
    /\ ~connected
    /\ client = NilHandle
    /\ live = {1}

\* C28: Close() on a client that is not connected returns nil, makes no
\* driver call and changes nothing, so a second Close() leaves the state the
\* first one left.
C28_CloseIdempotent ==
    [][/\ (last'.op = "Close" /\ ~connected) =>
            /\ Succeeded(last')
            /\ last'.calls = <<>>
            /\ ConnAfter = Conn
            /\ store' = store
       /\ \A e1, e2 \in {NoFault} \cup DisconnectFaults :
            close(close(Conn, e1).s, e2) = [s |-> close(Conn, e1).s, err |-> NilErr, calls |-> <<>>]]_vars
C28_Witness ==
    /\ last.op = "Close"
    /\ Succeeded(last)
    /\ last.calls = <<>>
    /\ closed
    /\ opened = 1
    /\ live = {}
    /\ ~connected

\* the only open driver client is the stored one
OneOpen == live \subseteq {client} /\ Cardinality(live) <= 1

\* this step is a Close() whose Disconnect failed
DisconnectFails == \E g \in Goroutines : pc[g] = "closing" /\ got'[g].err # NilErr

\* C23: among goroutines that run operations and Close() on one Client, as
\* long as no Disconnect has failed at most one driver client is open, and
\* it is the stored one; a goroutine whose connect() finds the Client
\* connected by another goroutine creates no driver client and gets the
\* stored one.
C23_AtMostOneOpen ==
    /\ OneOpen
    /\ [][(OneOpen /\ ~DisconnectFails) =>
            /\ OneOpen'
            /\ \A g \in Goroutines :
                 (connected /\ pc[g] = "connecting" /\ pc'[g] # "connecting") =>
                    /\ opened' = opened
                    /\ client' = client
                    /\ live' = live
                    /\ pc'[g] = "reread"]_vars
C23_Witness ==
    /\ \E g1, g2 \in Goroutines : g1 # g2 /\ pc[g1] = "reread" /\ pc[g2] = "reread"
    /\ opened = 2
    /\ live = {2}
    /\ client = 2
    /\ connected

\* C24: whenever no goroutine holds the write lock, connected is true
\* exactly when the stored handle is non-nil; readers hold the lock only
\* while no writer does, so no reader sees the flag and the handle disagree.
C24_FlagMatchesHandle ==
    /\ mutex.writer = NoOne => (connected <=> client # NilHandle)
    /\ mutex.readers # {} => mutex.writer = NoOne
    /\ \A g \in Goroutines : pc[g] \in {"getClient", "read", "checking"} <=> g \in mutex.readers
C24_Witness ==
    /\ \E g1, g2 \in Goroutines :
         /\ pc[g1] = "getClient"
         /\ pc[g2] = "read"
         /\ {g1, g2} \subseteq mutex.readers
    /\ closed
    /\ connected
    /\ client = 2

\* the driver clients of this run are used up: a bound of the model
OutOfClients == ~connected /\ opened = MaxClients

\* C25: no deadlock among goroutines that call operations, Close() and
\* IsConnected() on one Client.  The mutex is held only by goroutines inside
\* a call, by a writer alone or by readers, so nobody holds it once every
\* call has returned; and under fair scheduling every call that has started
\* ends: it returns, or the program panics.
C25_NoDeadlock ==
    /\ []((\A g \in Goroutines : pc[g] = "idle") => mutex = Unlocked)
    /\ [](\A g \in Goroutines :
            /\ Holds(g) <=> pc[g] \in {"getClient", "read", "checking", "connecting", "closing"}
            /\ pc[g] = "connect" => ~Holds(g))
    /\ \A g \in Goroutines :
         (pc[g] # "idle") ~> (pc[g] = "idle" \/ ~Running \/ OutOfClients)
C25_Witness ==
    \E g1, g2, g3 \in Goroutines :
        /\ pc[g1] = "connect"
        /\ pc[g2] = "connecting"
        /\ mutex.writer = g2
        /\ pc[g3] = "isConnected"
        /\ ~connected

\* the driver calls the mongo.go revisions make with client()'s context
CtxCalls == {"InsertOne", "InsertMany", "UpdateOne", "DeleteOne", "FindOne", "Find"}

\* C29: in the mongo.go revisions the context client() returned has not been
\* cancelled when the operation passes it to its driver call: no cancel()
\* comes before the driver call.
C29_ContextLiveAtCall ==
    rev \in LegacyRevisions =>
        \A i \in 1..Len(last.calls) :
            last.calls[i] \in CtxCalls =>
                \A j \in 1..(i - 1) : last.calls[j] # "cancel"

====
